---- MODULE Spec2Model ----
(***************************************************************************)
(* Model of lib/resampler/interpolator.js: the Interpolator class (its     *)
(* constructor and the point, linear, cubic and sinc kernels) and the      *)
(* three boundary mappers clipClamp_, clipPeriodic_ and clipMirror_.       *)
(*                                                                         *)
(* JavaScript numbers are modelled as IEEE 754 doubles: every quotient,    *)
(* product, sum and difference is rounded to 53 significant bits, ties to  *)
(* even. Beside the finite numbers there are the two non-numeric outcomes  *)
(* the code can produce: NaN (x % 0, arithmetic on undefined) and          *)
(* undefined (an array read at an index that is not an own property).      *)
(* An option of the details record is <<>> when absent and <<v>> when set. *)
(* The value of the windowed-sinc sum is transcendental; it is kept as the *)
(* ordered list of its terms (kernel argument, fetched sample), and is NaN *)
(* when a sample or the kernel is.                                         *)
(***************************************************************************)
EXTENDS Integers, Sequences, FiniteSets, TLC

VARIABLES scaleFrom, scaleTo, details, this, samples, last, clipCall

vars == <<scaleFrom, scaleTo, details, this, samples, last, clipCall>>

\* ---------------------------------------------------------------- bounds
MaxLen == 3
MaxTarget == 3
MaxSample == 1
MaxFilter == 2
ClipMaxN == 5
ClipMaxT == 8

\* ------------------------------------------------ unbounded naturals
\* A natural number is the sequence of its digits in base LimbBase, least
\* significant first and without leading zeros (0 is <<>>), so that the
\* 53-bit significands of the numbers fit the 32-bit integers of TLC.
LimbBits == 15
LimbBase == 32768

Abs(x) == IF x < 0 THEN -x ELSE x

\* 2^r for 0 <= r < LimbBits
Pow2(r) ==
  <<1, 2, 4, 8, 16, 32, 64, 128, 256, 512, 1024, 2048, 4096, 8192, 16384>>[r + 1]

RECURSIVE BitLen(_)
BitLen(n) == IF n = 0 THEN 0 ELSE 1 + BitLen(n \div 2)

RECURSIVE BTrim(_)
BTrim(x) ==
  IF x = <<>> THEN <<>>
  ELSE IF x[Len(x)] = 0 THEN BTrim(SubSeq(x, 1, Len(x) - 1)) ELSE x

RECURSIVE BFromInt(_)
BFromInt(n) ==
  IF n = 0 THEN <<>> ELSE <<n % LimbBase>> \o BFromInt(n \div LimbBase)

RECURSIVE BToInt(_)
BToInt(x) == IF x = <<>> THEN 0 ELSE x[1] + LimbBase * BToInt(Tail(x))

Limb(x, i) == IF i <= Len(x) THEN x[i] ELSE 0

RECURSIVE BAddFrom(_, _, _, _)
BAddFrom(x, y, i, c) ==
  IF i > Len(x) /\ i > Len(y) THEN (IF c = 0 THEN <<>> ELSE <<c>>)
  ELSE LET d == Limb(x, i) + Limb(y, i) + c
       IN  <<d % LimbBase>> \o BAddFrom(x, y, i + 1, d \div LimbBase)

BAdd(x, y) == BAddFrom(x, y, 1, 0)

RECURSIVE BSubFrom(_, _, _, _)
BSubFrom(x, y, i, c) ==
  IF i > Len(x) THEN <<>>
  ELSE LET d == Limb(x, i) - Limb(y, i) - c
       IN  <<IF d < 0 THEN d + LimbBase ELSE d>>
             \o BSubFrom(x, y, i + 1, IF d < 0 THEN 1 ELSE 0)

\* x - y for x >= y
BSub(x, y) == BTrim(BSubFrom(x, y, 1, 0))

RECURSIVE BCmpFrom(_, _, _)
BCmpFrom(x, y, i) ==
  IF i = 0 THEN 0
  ELSE IF x[i] < y[i] THEN -1
  ELSE IF x[i] > y[i] THEN 1
  ELSE BCmpFrom(x, y, i - 1)

\* -1, 0 or 1 as x < y, x = y or x > y
BCmp(x, y) ==
  IF Len(x) < Len(y) THEN -1
  ELSE IF Len(x) > Len(y) THEN 1
  ELSE BCmpFrom(x, y, Len(x))

RECURSIVE BMulSmallFrom(_, _, _, _)
BMulSmallFrom(x, k, i, c) ==
  IF i > Len(x) THEN (IF c = 0 THEN <<>> ELSE <<c>>)
  ELSE LET d == x[i] * k + c
       IN  <<d % LimbBase>> \o BMulSmallFrom(x, k, i + 1, d \div LimbBase)

\* x * k for 0 <= k < LimbBase
BMulSmall(x, k) == IF k = 0 THEN <<>> ELSE BMulSmallFrom(x, k, 1, 0)

BShiftLimbs(x, q) == IF x = <<>> THEN <<>> ELSE [i \in 1..q |-> 0] \o x

RECURSIVE BMulFrom(_, _, _)
BMulFrom(x, y, j) ==
  IF j > Len(y) THEN <<>>
  ELSE BAdd(BShiftLimbs(BMulSmall(x, y[j]), j - 1), BMulFrom(x, y, j + 1))

BMul(x, y) ==
  IF Len(y) = 1 THEN BMulSmall(x, y[1])
  ELSE IF Len(x) = 1 THEN BMulSmall(y, x[1])
  ELSE BMulFrom(x, y, 1)

RECURSIVE BDivFrom(_, _, _, _)
BDivFrom(x, d, i, r) ==
  IF i = 0 THEN [q |-> <<>>, r |-> r]
  ELSE LET cur == r * LimbBase + x[i]
           rest == BDivFrom(x, d, i - 1, cur % d)
       IN  [q |-> Append(rest.q, cur \div d), r |-> rest.r]

\* quotient and remainder of x by d, 0 < d <= 2 * LimbBase
BDivSmall(x, d) ==
  LET res == BDivFrom(x, d, Len(x), 0) IN [q |-> BTrim(res.q), r |-> res.r]

\* x * 2^s and floor(x / 2^s)
BShl(x, s) ==
  IF s = 0 THEN x
  ELSE IF s % LimbBits = 0 THEN BShiftLimbs(x, s \div LimbBits)
  ELSE BShiftLimbs(BMulSmall(x, Pow2(s % LimbBits)), s \div LimbBits)
BShr(x, s) ==
  IF s = 0 THEN x
  ELSE IF s \div LimbBits >= Len(x) THEN <<>>
  ELSE IF s % LimbBits = 0 THEN SubSeq(x, s \div LimbBits + 1, Len(x))
  ELSE BDivSmall(SubSeq(x, s \div LimbBits + 1, Len(x)), Pow2(s % LimbBits)).q

BBitLen(x) ==
  IF x = <<>> THEN 0 ELSE LimbBits * (Len(x) - 1) + BitLen(x[Len(x)])

\* bit i of x, bit 0 the least significant
BBit(x, i) == (Limb(x, i \div LimbBits + 1) \div Pow2(i % LimbBits)) % 2

\* the s least significant bits of x are all 0
BLowZero(x, s) ==
  /\ \A i \in 1..(s \div LimbBits) : Limb(x, i) = 0
  /\ Limb(x, s \div LimbBits + 1) % Pow2(s % LimbBits) = 0

RECURSIVE TrailingZeros(_)
TrailingZeros(n) == IF n % 2 = 1 THEN 0 ELSE 1 + TrailingZeros(n \div 2)

\* the number of trailing zero bits of x > 0
RECURSIVE BTrailingZeros(_)
BTrailingZeros(x) ==
  IF x[1] = 0 THEN LimbBits + BTrailingZeros(Tail(x)) ELSE TrailingZeros(x[1])

\* ------------------------------------------------------- JavaScript values
\* A finite number is sign * m * 2^e with m odd (0 is m = <<>>, e = 0), a
\* double when m has at most MantBits bits. Exponents stay far from the
\* range where doubles overflow or become subnormal, and the sign of a zero
\* is not kept.
MantBits == 53

NaN == [kind |-> "NaN", sign |-> 1, m |-> <<>>, e |-> 0]
Undefined == [kind |-> "undefined", sign |-> 1, m |-> <<>>, e |-> 0]
Zero == [kind |-> "num", sign |-> 1, m |-> <<>>, e |-> 0]

\* sign * m * 2^e with the trailing zero bits of m moved into the exponent
Canon(sign, m, e) ==
  IF m = <<>> THEN Zero
  ELSE LET z == BTrailingZeros(m)
       IN  [kind |-> "num", sign |-> sign, m |-> BShr(m, z), e |-> e + z]

\* the integer n
Num(n) ==
  IF n = 0 THEN Zero
  ELSE IF Abs(n) < LimbBase
  THEN LET z == TrailingZeros(Abs(n))
       IN  [kind |-> "num", sign |-> IF n < 0 THEN -1 ELSE 1,
            m |-> <<Abs(n) \div Pow2(z)>>, e |-> z]
  ELSE Canon(IF n < 0 THEN -1 ELSE 1, BFromInt(Abs(n)), 0)

IsNum(a) == a.kind = "num"
IsInt(a) == a.kind = "num" /\ a.e >= 0
IntOf(a) ==
  IF a.m = <<>> THEN 0
  ELSE IF Len(a.m) = 1 /\ a.e < LimbBits THEN a.sign * a.m[1] * Pow2(a.e)
  ELSE a.sign * BToInt(BShl(a.m, a.e))

\* the double nearest to the exact number x, ties to the even significand
RoundDouble(x) ==
  LET len == BBitLen(x.m)
      s == len - MantBits
      q == BShr(x.m, s)
      up == /\ BBit(x.m, s - 1) = 1
            /\ (~BLowZero(x.m, s - 1) \/ BBit(q, 0) = 1)
  IN  IF len <= MantBits THEN x
      ELSE Canon(x.sign, IF up THEN BAdd(q, <<1>>) ELSE q, x.e + s)

Neg(a) == IF a.m = <<>> THEN a ELSE [a EXCEPT !.sign = -a.sign]

\* the exact sum and product of two finite numbers
ExactAdd(a, b) ==
  LET e0 == IF a.e < b.e THEN a.e ELSE b.e
      ma == BShl(a.m, a.e - e0)
      mb == BShl(b.m, b.e - e0)
      c == BCmp(ma, mb)
  IN  IF a.m = <<>> THEN b
      ELSE IF b.m = <<>> THEN a
      ELSE IF a.sign = b.sign THEN Canon(a.sign, BAdd(ma, mb), e0)
      ELSE IF c = 0 THEN Zero
      ELSE IF c > 0 THEN Canon(a.sign, BSub(ma, mb), e0)
      ELSE Canon(b.sign, BSub(mb, ma), e0)

ExactMul(a, b) ==
  IF a.m = <<>> \/ b.m = <<>> THEN Zero
  ELSE [kind |-> "num", sign |-> a.sign * b.sign, m |-> BMul(a.m, b.m),
        e |-> a.e + b.e]

\* a + b, a - b, a * b, a / 2 on JavaScript values, each rounded to a double;
\* undefined converts to NaN
Add(a, b) ==
  IF IsNum(a) /\ IsNum(b) THEN RoundDouble(ExactAdd(a, b)) ELSE NaN
Sub(a, b) ==
  IF IsNum(a) /\ IsNum(b) THEN RoundDouble(ExactAdd(a, Neg(b))) ELSE NaN
Mul(a, b) ==
  IF IsNum(a) /\ IsNum(b) THEN RoundDouble(ExactMul(a, b)) ELSE NaN
Half(a) ==
  IF ~IsNum(a) THEN NaN
  ELSE IF a.m = <<>> THEN a ELSE [a EXCEPT !.e = a.e - 1]

\* n / d for integers n and d, 0 < d <= 2 * LimbBase, rounded to a double: the
\* quotient is taken to more than MantBits + 2 bits and a last bit records a
\* remainder
Div(n, d) ==
  LET res == BDivSmall(BShl(BFromInt(Abs(n)), 5 * LimbBits), d)
      m == BAdd(BShl(res.q, 1), IF res.r = 0 THEN <<>> ELSE <<1>>)
  IN  RoundDouble(Canon(IF n < 0 THEN -1 ELSE 1, m, -(5 * LimbBits) - 1))

\* Math.floor of a finite number, and Math.round: floor(a + 1/2), exactly
Floor(a) ==
  IF a.e >= 0 THEN IntOf(a)
  ELSE IF a.sign = 1 THEN BToInt(BShr(a.m, -a.e))
  ELSE -BToInt(BShr(a.m, -a.e)) - 1
Round(a) == Floor(ExactAdd(a, Canon(1, <<1>>, -1)))

Less(a, b) == LET d == ExactAdd(a, Neg(b)) IN d.m # <<>> /\ d.sign = -1
MathMax(a, b) == IF Less(a, b) THEN b ELSE a
MathMin(a, b) == IF Less(b, a) THEN b ELSE a

\* a % b of two integers: the remainder takes the sign of the dividend,
\* and a zero divisor gives NaN
JsRem(a, b) ==
  IF b = 0 THEN NaN
  ELSE IF a < 0 THEN Num(-((-a) % Abs(b))) ELSE Num(a % Abs(b))

\* samples[i] for a JavaScript value i; the buffer is 0-based in the source
ElementAt(buf, i) ==
  IF IsInt(i) /\ i.sign = 1 /\ IntOf(i) < Len(buf)
  THEN Num(buf[IntOf(i) + 1]) ELSE Undefined

\* o || d for an optional numeric option (absent and 0 are falsy)
OrElse(o, d) == IF o = <<>> \/ o = <<0>> THEN d ELSE o[1]

\* ------------------------------------------------------------ clip functions
clipClamp_(t, n) ==
  Num(IF (IF t < n - 1 THEN t ELSE n - 1) > 0
      THEN (IF t < n - 1 THEN t ELSE n - 1) ELSE 0)

\* clipPeriodic_ without the correction of a negative remainder
clipPeriodic_NoWrap(t, n) == JsRem(t, n)

clipPeriodic_(t, n) ==
  LET r == JsRem(t, n)
  IN  IF IsNum(r) /\ IntOf(r) < 0 THEN Num(IntOf(r) + n) ELSE r

clipMirror_(t, n) ==
  LET period == 2 * (n - 1)
      r == clipPeriodic_(t, period)
  IN  IF IsNum(r) /\ IntOf(r) > n - 1 THEN Num(period - IntOf(r)) ELSE r

\* ----------------------------------------------------------- sinc functions
gaussianWindow_ == [fn |-> "gaussianWindow_", size |-> <<>>]
lanczosWindow_(size) == [fn |-> "lanczosWindow_", size |-> size]
sincKernel_(window) == [fn |-> "sincKernel_", window |-> window]

\* the kernel returns NaN at every argument: the Lanczos window divides by a
\* size that is undefined or 0, and sin of NaN or of an infinity is NaN
kernelIsNaN_(kernel) ==
  /\ kernel.window.fn = "lanczosWindow_"
  /\ kernel.window.size \in {<<>>, <<0>>}

\* ------------------------------------------------------------- constructor
\* the constructor with linear, not sinc, as the kernel of an unrecognized method
Interpolator_LinearDefault(from, to, d) ==
  [ length_ |-> from,
    scaleFactor_ |->
      IF d.clip = <<"periodic">> THEN Div(from, to) ELSE Div(from - 1, to),
    interpolate |->
      IF d.method = <<"point">> THEN "point"
      ELSE IF d.method = <<"cubic">> THEN "cubic"
      ELSE IF d.method = <<"sinc">> \/ d.method = <<"lanczos">> THEN "sinc"
      ELSE "linear",
    clip_ |->
      IF d.clip = <<"periodic">> THEN "clipPeriodic_"
      ELSE IF d.clip = <<"mirror">> THEN "clipMirror_"
      ELSE "clipClamp_",
    tangentFactor_ |->
      Sub(Num(1),
          MathMax(Num(0),
                  MathMin(Num(1),
                          IF d.tension = <<>> \/ d.tension = <<Num(0)>>
                          THEN Num(0) ELSE d.tension[1]))),
    sincFilterSize_ |-> OrElse(d.sincFilterSize, 1),
    kernel_ |->
      IF d.method = <<"lanczos">>
      THEN sincKernel_(lanczosWindow_(d.lanczosFilterSize))
      ELSE sincKernel_(IF d.sincWindow = <<>> THEN gaussianWindow_
                       ELSE [fn |-> d.sincWindow[1], size |-> <<>>]),
    sincFilterSize |->
      IF d.method = <<"lanczos">> THEN d.lanczosFilterSize ELSE <<>> ]

Interpolator(from, to, d) ==
  [ length_ |-> from,
    scaleFactor_ |->
      IF d.clip = <<"periodic">> THEN Div(from, to) ELSE Div(from - 1, to),
    interpolate |->
      IF d.method = <<"point">> THEN "point"
      ELSE IF d.method = <<"linear">> THEN "linear"
      ELSE IF d.method = <<"cubic">> THEN "cubic"
      ELSE "sinc",
    clip_ |->
      IF d.clip = <<"periodic">> THEN "clipPeriodic_"
      ELSE IF d.clip = <<"mirror">> THEN "clipMirror_"
      ELSE "clipClamp_",
    tangentFactor_ |->
      Sub(Num(1),
          MathMax(Num(0),
                  MathMin(Num(1),
                          IF d.tension = <<>> \/ d.tension = <<Num(0)>>
                          THEN Num(0) ELSE d.tension[1]))),
    sincFilterSize_ |-> OrElse(d.sincFilterSize, 1),
    kernel_ |->
      IF d.method = <<"lanczos">>
      THEN sincKernel_(lanczosWindow_(d.lanczosFilterSize))
      ELSE sincKernel_(IF d.sincWindow = <<>> THEN gaussianWindow_
                       ELSE [fn |-> d.sincWindow[1], size |-> <<>>]),
    \* line 96 assigns the property without the trailing underscore
    sincFilterSize |->
      IF d.method = <<"lanczos">> THEN d.lanczosFilterSize ELSE <<>> ]

\* ------------------------------------------------------------------ fetch
clip_(self, t, n) ==
  CASE self.clip_ = "clipClamp_" -> clipClamp_(t, n)
    [] self.clip_ = "clipPeriodic_" -> clipPeriodic_(t, n)
    [] self.clip_ = "clipMirror_" -> clipMirror_(t, n)

\* the index getClippedInput_ reads the buffer at
readIndex_(self, t) ==
  IF 0 <= t /\ t < self.length_ THEN Num(t) ELSE clip_(self, t, self.length_)

getClippedInput_(self, t, buf) == ElementAt(buf, readIndex_(self, t))

\* the record of one array read: the index asked for and the index used
access_(self, t) == [n |-> t, at |-> readIndex_(self, t)]

getTangent_(self, k, buf) ==
  Half(Mul(self.tangentFactor_,
           Sub(getClippedInput_(self, k + 1, buf),
               getClippedInput_(self, k - 1, buf))))

\* ----------------------------------------------------------------- kernels
\* each kernel returns its value, the terms of the sinc sum (sinc only) and
\* the array reads it made, in evaluation order

\* the source coordinate u = scaleFactor_ * t of a kernel (t = ... * t), its
\* floor k (let k = Math.floor(t)) and, for linear and cubic, the fraction
\* f = u - k (t -= k)
positionAt_(u, k) == [u |-> u, k |-> k, f |-> Sub(u, Num(k))]
position_(u) == positionAt_(u, Floor(u))

\* the read of point at the index k
pointAt_(self, k, buf) ==
  [value |-> getClippedInput_(self, k, buf),
   terms |-> <<>>,
   reads |-> <<access_(self, k)>>]

\* point with Math.floor in place of Math.round
point_Floor(self, t, buf) ==
  pointAt_(self, Floor(Mul(self.scaleFactor_, Num(t))), buf)

point(self, t, buf) ==
  pointAt_(self, Round(Mul(self.scaleFactor_, Num(t))), buf)

\* the blend of linear at the position p
linearAt_(self, p, buf) ==
  [value |-> Add(Mul(Sub(Num(1), p.f), getClippedInput_(self, p.k, buf)),
                 Mul(p.f, getClippedInput_(self, p.k + 1, buf))),
   terms |-> <<>>,
   reads |-> <<access_(self, p.k), access_(self, p.k + 1)>>]

\* linear with the two blend weights exchanged
linear_Swapped(self, t, buf) ==
  LET p == position_(Mul(self.scaleFactor_, Num(t)))
  IN  [value |-> Add(Mul(p.f, getClippedInput_(self, p.k, buf)),
                     Mul(Sub(Num(1), p.f),
                         getClippedInput_(self, p.k + 1, buf))),
       terms |-> <<>>,
       reads |-> <<access_(self, p.k), access_(self, p.k + 1)>>]

linear(self, t, buf) ==
  linearAt_(self, position_(Mul(self.scaleFactor_, Num(t))), buf)

\* the four Hermite weights of cubic from t, t2 = t * t and t3 = t * t2
hermiteOf_(f, t2, t3) ==
  [h00 |-> Add(Sub(Mul(Num(2), t3), Mul(Num(3), t2)), Num(1)),
   h10 |-> Add(Sub(t3, Mul(Num(2), t2)), f),
   h01 |-> Add(Mul(Num(-2), t3), Mul(Num(3), t2)),
   h11 |-> Sub(t3, t2)]
hermiteFrom_(f, t2) == hermiteOf_(f, t2, Mul(f, t2))
hermite_(f) == hermiteFrom_(f, Mul(f, f))

\* the sum of cubic at the index k with the weights h; the tangents m and the
\* points p are read in the order of the source
cubicAt_(self, k, h, buf) ==
  [value |-> Add(Add(Add(Mul(h.h00, getClippedInput_(self, k, buf)),
                         Mul(h.h10, getTangent_(self, k, buf))),
                     Mul(h.h01, getClippedInput_(self, k + 1, buf))),
                 Mul(h.h11, getTangent_(self, k + 1, buf))),
   terms |-> <<>>,
   reads |-> <<access_(self, k + 1), access_(self, k - 1),
               access_(self, k + 2), access_(self, k),
               access_(self, k), access_(self, k + 1)>>]

cubicFrom_(self, p, buf) == cubicAt_(self, p.k, hermite_(p.f), buf)

cubic(self, t, buf) ==
  cubicFrom_(self, position_(Mul(self.scaleFactor_, Num(t))), buf)

\* the for loop of sinc: j runs from ref to ref1, upwards when ref <= ref1
RECURSIVE sincLoop_(_, _, _, _, _, _, _)
sincLoop_(self, u, buf, j, ref, ref1, acc) ==
  IF (IF ref <= ref1 THEN j <= ref1 ELSE j >= ref1)
  THEN sincLoop_(self, u, buf, IF ref <= ref1 THEN j + 1 ELSE j - 1, ref, ref1,
                 [terms |-> Append(acc.terms,
                                   [n |-> j,
                                    x |-> Sub(u, Num(j)),
                                    s |-> getClippedInput_(self, j, buf)]),
                  reads |-> Append(acc.reads, access_(self, j))])
  ELSE acc

\* what sinc returns after the loop: the sum is NaN when the kernel or a
\* sample read is not a number, and is otherwise left unevaluated
sincSum_(self, out) ==
  [value |->
     IF \/ kernelIsNaN_(self.kernel_)
        \/ \E i \in 1..Len(out.terms) : ~IsNum(out.terms[i].s)
     THEN NaN
     ELSE [kind |-> "sum", sign |-> 1, m |-> <<>>, e |-> 0],
   terms |-> out.terms,
   reads |-> out.reads]

\* the sum of sinc over the indices from ref to ref1
sincOver_(self, u, ref, ref1, buf) ==
  sincSum_(self, sincLoop_(self, u, buf, ref, ref, ref1,
                           [terms |-> <<>>, reads |-> <<>>]))

\* the sum of sinc at the position p
sincAt_(self, p, buf) ==
  sincOver_(self, p.u, p.k - self.sincFilterSize_ + 1,
            p.k + self.sincFilterSize_, buf)

\* sinc with the lower bound of the loop one too low
sinc_OffByOne(self, t, buf) ==
  LET p == position_(Mul(self.scaleFactor_, Num(t)))
  IN  sincOver_(self, p.u, p.k - self.sincFilterSize_,
                p.k + self.sincFilterSize_, buf)

sinc(self, t, buf) ==
  sincAt_(self, position_(Mul(self.scaleFactor_, Num(t))), buf)

\* this.interpolate(t, samples)
interpolate(self, t, buf) ==
  CASE self.interpolate = "point" -> point(self, t, buf)
    [] self.interpolate = "linear" -> linear(self, t, buf)
    [] self.interpolate = "cubic" -> cubic(self, t, buf)
    [] self.interpolate = "sinc" -> sinc(self, t, buf)

\* ------------------------------------------------------------ input domains
Opt(S) == {<<>>} \cup {<<v>> : v \in S}

Methods == Opt({"point", "linear", "cubic", "sinc", "lanczos", "unknown"})
Clips == {<<"clamp">>, <<"periodic">>, <<"mirror">>}
Tensions == Opt({Div(1, 2), Num(1)})
FilterSizes == Opt(0..MaxFilter)
Windows == Opt({"userWindow"})
\* a sample is 0 or MaxSample
SampleValues == {0, MaxSample}

DetailsSet ==
  { [method |-> m, clip |-> c, tension |-> x, sincFilterSize |-> s,
     sincWindow |-> w, lanczosFilterSize |-> l] :
      m \in Methods, c \in Clips, x \in Tensions, s \in FilterSizes,
      w \in Windows, l \in FilterSizes }

\* the methods whose kernel is sinc, and those that keep details.sincWindow
SincMethods == {<<"sinc">>, <<"lanczos">>, <<"unknown">>, <<>>}
WindowMethods == {<<"sinc">>, <<"unknown">>, <<>>}

\* an option is supplied only with a method whose kernel uses it
ValidDetails ==
  { d \in DetailsSet :
      /\ (d.lanczosFilterSize # <<>>) => (d.method = <<"lanczos">>)
      /\ (d.tension # <<>>) => (d.method = <<"cubic">>)
      /\ (d.sincFilterSize # <<>>) => (d.method \in SincMethods)
      /\ (d.sincWindow # <<>>) => (d.method \in WindowMethods) }

NoDetails ==
  [method |-> <<>>, clip |-> <<>>, tension |-> <<>>, sincFilterSize |-> <<>>,
   sincWindow |-> <<>>, lanczosFilterSize |-> <<>>]

\* ------------------------------------------------------------ state machine
\* the state after new Interpolator(scaleFrom, scaleTo, details), with the
\* caller's buffer of scaleFrom samples
Init ==
  /\ scaleFrom \in 1..MaxLen
  /\ scaleTo \in 1..MaxTarget
  /\ details \in ValidDetails
  /\ this = Interpolator(scaleFrom, scaleTo, details)
  /\ samples \in [1..scaleFrom -> SampleValues]
  /\ last = <<>>
  /\ clipCall = <<>>

\* the record of a call: its index, what it returned and what it read
record_(t, out) ==
  [t |-> t, value |-> out.value, terms |-> out.terms, reads |-> out.reads]

\* a call whose kernel scales the stored scale factor instead of its local t
Evaluate_WritesScale(t) ==
  /\ last' = <<record_(t, interpolate(this, t, samples))>>
  /\ this' = [this EXCEPT !.scaleFactor_ = Mul(this.scaleFactor_, Num(t))]
  /\ UNCHANGED <<scaleFrom, scaleTo, details, samples, clipCall>>

\* one call interpolator.interpolate(t, samples)
Evaluate(t) ==
  /\ last' = <<record_(t, interpolate(this, t, samples))>>
  /\ UNCHANGED <<scaleFrom, scaleTo, details, this, samples, clipCall>>

Next == \E t \in 0..(scaleTo - 1) : Evaluate(t)

Spec == Init /\ [][Next]_vars

\* the boundary mappers applied on their own to any index and length
ClipInit ==
  /\ scaleFrom = 1
  /\ scaleTo = 1
  /\ details = NoDetails
  /\ this = Interpolator(1, 1, NoDetails)
  /\ samples = <<0>>
  /\ last = <<>>
  /\ clipCall = <<>>

CallClip(fn, t, n, r) ==
  /\ clipCall' = <<[fn |-> fn, t |-> t, n |-> n, r |-> r]>>
  /\ UNCHANGED <<scaleFrom, scaleTo, details, this, samples, last>>

CallClipClamp(t, n) == CallClip("clipClamp_", t, n, clipClamp_(t, n))
CallClipPeriodic(t, n) == CallClip("clipPeriodic_", t, n, clipPeriodic_(t, n))
CallClipMirror(t, n) == CallClip("clipMirror_", t, n, clipMirror_(t, n))

ClipNext ==
  \E t \in (-ClipMaxT)..ClipMaxT, n \in 1..ClipMaxN :
    \/ CallClipClamp(t, n)
    \/ CallClipPeriodic(t, n)
    \/ CallClipMirror(t, n)

ClipSpec == ClipInit /\ [][ClipNext]_vars

\* ------------------------------------------------------------------ claims
Called == last # <<>>
L == last[1]

\* the source coordinate u = scaleFactor * t of the last call and its floor
U == Mul(this.scaleFactor_, Num(L.t))
K == Floor(U)

\* the integers lo, lo + 1, ..., hi as a sequence
Range(lo, hi) == [i \in 1..(hi - lo + 1) |-> lo + i - 1]

TermIndices == [i \in 1..Len(L.terms) |-> L.terms[i].n]
ReadIndices == [i \in 1..Len(L.reads) |-> L.reads[i].n]

\* C1: with method lanczos and lanczosFilterSize a, the sum runs over exactly
\* the integers n in [k - a + 1, k + a], whatever sincFilterSize was supplied.
C1_LanczosFilterSize ==
  (/\ Called
   /\ details.method = <<"lanczos">>
   /\ details.lanczosFilterSize \notin {<<>>, <<0>>}) =>
    LET a == details.lanczosFilterSize[1]
    IN  /\ TermIndices = Range(K - a + 1, K + a)
        /\ \A i \in 1..Len(L.terms) :
             /\ L.terms[i].x = Sub(U, Num(L.terms[i].n))
             /\ L.terms[i].s = getClippedInput_(this, L.terms[i].n, samples)

\* C2: every boundary mapper returns, for every length n >= 1 and every
\* integer t, an integer index r with 0 <= r < n.
C2_MapperTotal ==
  clipCall # <<>> =>
    /\ IsInt(clipCall[1].r)
    /\ 0 <= IntOf(clipCall[1].r)
    /\ IntOf(clipCall[1].r) < clipCall[1].n

\* the buffer lies on the line samples[i] = a * i + b; a buffer of one sample
\* fixes no slope and is taken with the constant line through it
OnLine(a, b) ==
  /\ Len(samples) = 1 => a = 0
  /\ \A i \in 0..(Len(samples) - 1) : samples[i + 1] = a * i + b

Slopes == (-MaxSample)..MaxSample

\* the numerator of the scale factor ScaleNum / scaleTo, so that the source
\* coordinate of output index t is the rational ScaleNum * t / scaleTo
ScaleNum == IF details.clip = <<"periodic">> THEN scaleFrom ELSE scaleFrom - 1

\* the rounding tolerance 2^-40
Tolerance == Canon(1, <<1>>, -40)

\* the value of the last call is a number within the tolerance of a * u + b
\* at the rational u: |value * scaleTo - (a * ScaleNum * t + b * scaleTo)|
\* is at most scaleTo * 2^-40, computed exactly
OnLineAt(a, b) ==
  /\ IsNum(L.value)
  /\ LET d == ExactAdd(ExactMul(L.value, Num(scaleTo)),
                       Num(-(a * ScaleNum * L.t + b * scaleTo)))
         bound == ExactMul(Tolerance, Num(scaleTo))
     IN  ~Less(bound, [d EXCEPT !.sign = 1])

\* C3 as stated, for the periodic policy it covers and with the rounding of
\* doubles allowed for: linear reconstructs a line a * i + b at every output
\* index.
C3_LinearExact_Original ==
  (Called /\ details.method = <<"linear">> /\ details.clip = <<"periodic">>) =>
    \A a \in Slopes, b \in SampleValues :
      OnLine(a, b) => OnLineAt(a, b)

\* C3 amended: linear reconstructs a line a * i + b, up to the rounding of
\* doubles, at every output index under clamp, and under any policy at every
\* output index whose upper bracketing index floor(u) + 1 is below the
\* source length.
C3_LinearExact ==
  (/\ Called
   /\ details.method = <<"linear">>
   /\ (this.clip_ = "clipClamp_" \/ K + 1 < scaleFrom)) =>
    \A a \in Slopes, b \in SampleValues :
      OnLine(a, b) => OnLineAt(a, b)

C3_Witness ==
  /\ Called
  /\ details.method = <<"linear">>
  /\ this.clip_ = "clipMirror_"
  /\ OnLine(1, 0)
  /\ scaleFrom >= 2
  /\ U.e < 0
  /\ L.value = U

\* C4 as stated: point with clamp and equal lengths returns samples[t].
C4_Identity_Original ==
  (/\ Called
   /\ details.method = <<"point">>
   /\ this.clip_ = "clipClamp_"
   /\ scaleFrom = scaleTo) =>
    L.value = Num(samples[L.t + 1])

\* C4 amended: point with clamp and equal lengths n returns the nearest
\* neighbour samples[round((n - 1) * t / n)], which is samples[t] when
\* 2 * t <= n and samples[t - 1] otherwise.
C4_NearIdentity ==
  (/\ Called
   /\ details.method = <<"point">>
   /\ this.clip_ = "clipClamp_"
   /\ scaleFrom = scaleTo) =>
    L.value = Num(samples[(IF 2 * L.t <= scaleFrom THEN L.t ELSE L.t - 1) + 1])

C4_Witness ==
  /\ Called
  /\ details.method = <<"point">>
  /\ this.clip_ = "clipClamp_"
  /\ scaleFrom = scaleTo
  /\ 2 * L.t > scaleFrom
  /\ samples[L.t + 1] # samples[L.t]
  /\ L.value = Num(samples[L.t])

\* C5: an unrecognized or absent method yields the configuration of method
\* sinc (sinc kernel, Gaussian window and filter size 1 unless set) and the
\* same result of every call.
SincDetails == [details EXCEPT !.method = <<"sinc">>]

C5_MethodFallback ==
  (details.method = <<>> \/ details.method = <<"unknown">>) =>
    /\ this = Interpolator(scaleFrom, scaleTo, SincDetails)
    /\ this.interpolate = "sinc"
    /\ details.sincWindow = <<>> => this.kernel_ = sincKernel_(gaussianWindow_)
    /\ details.sincFilterSize = <<>> => this.sincFilterSize_ = 1
    /\ Called =>
         L = record_(L.t, sinc(Interpolator(scaleFrom, scaleTo, SincDetails),
                               L.t, samples))

C5_Witness ==
  /\ Called
  /\ details.method = <<"unknown">>
  /\ details.sincFilterSize = <<>>
  /\ details.sincWindow = <<>>
  /\ Len(L.terms) = 2
  /\ L.value.kind = "sum"

\* C6: cubic returns c at every output index when every sample equals c,
\* under every boundary policy and tension.
C6_CubicConstant ==
  (Called /\ details.method = <<"cubic">>) =>
    \A c \in SampleValues :
      (\A i \in 1..Len(samples) : samples[i] = c) => L.value = Num(c)

\* C7: a call changes neither the configuration nor the caller's buffer, and
\* what it returns is fixed by the constructor's arguments, the buffer and
\* its index alone, whatever calls were made before it.
C7_Frame ==
  [][/\ this' = this
     /\ samples' = samples
     /\ [value |-> last'[1].value, terms |-> last'[1].terms,
         reads |-> last'[1].reads] =
          interpolate(Interpolator(scaleFrom, scaleTo, details),
                      last'[1].t, samples)
     /\ (last # <<>> /\ last'[1].t = last[1].t) => last' = last]_vars

C7_Witness ==
  /\ Called
  /\ this = Interpolator(scaleFrom, scaleTo, details)
  /\ details.method = <<"cubic">>
  /\ L.t > 0
  /\ Len(L.reads) = 6
  /\ IsNum(L.value)
  /\ L.value.e < 0

\* the remainder of t modulo n with the sign of n, n > 0
FlooredMod(t, n) == t % n

Reflect(t, n) ==
  LET r == FlooredMod(t, 2 * (n - 1))
  IN  IF r <= n - 1 THEN r ELSE 2 * (n - 1) - r

ClipIs(fn, t, n, r) ==
  (clipCall[1].fn = fn /\ clipCall[1].t = t /\ clipCall[1].n = n) =>
    clipCall[1].r = Num(r)

\* C8: for n >= 2 and every integer t, clipPeriodic_ is the floored modulo
\* and clipMirror_ the reflection of period 2(n-1), so mirror(-1, n) = 1 and
\* mirror(n, n) = n - 2; the six listed values are as stated.
C8_WrapAndMirror ==
  (clipCall # <<>> /\ clipCall[1].n >= 2) =>
    LET c == clipCall[1]
    IN  /\ c.fn = "clipPeriodic_" => c.r = Num(FlooredMod(c.t, c.n))
        /\ c.fn = "clipMirror_" => c.r = Num(Reflect(c.t, c.n))
        /\ (c.fn = "clipMirror_" /\ c.t = -1) => c.r = Num(1)
        /\ (c.fn = "clipMirror_" /\ c.t = c.n) => c.r = Num(c.n - 2)
        /\ ClipIs("clipPeriodic_", -1, 5, 4)
        /\ ClipIs("clipPeriodic_", 5, 5, 0)
        /\ ClipIs("clipPeriodic_", 7, 5, 2)
        /\ ClipIs("clipMirror_", -1, 5, 1)
        /\ ClipIs("clipMirror_", 8, 5, 0)
        /\ ClipIs("clipMirror_", 5, 5, 3)

C8_Witness ==
  /\ clipCall # <<>>
  /\ clipCall[1].fn = "clipMirror_"
  /\ clipCall[1].t = -6
  /\ clipCall[1].n = 5
  /\ clipCall[1].r = Num(2)

\* the mapper the clip option selects, applied to index n of the buffer
Mapped(n) ==
  IF details.clip = <<"periodic">> THEN clipPeriodic_(n, scaleFrom)
  ELSE IF details.clip = <<"mirror">> THEN clipMirror_(n, scaleFrom)
  ELSE clipClamp_(n, scaleFrom)

\* C9: with method sinc and filter size s the loop ends after reading the
\* 2 * s indices k - s + 1, ..., k + s once each, in range directly and out
\* of range through the mapper.
C9_SincReads ==
  (Called /\ details.method = <<"sinc">>) =>
    LET s == IF details.sincFilterSize \in {<<>>, <<0>>}
             THEN 1 ELSE details.sincFilterSize[1]
    IN  /\ Len(L.reads) = 2 * s
        /\ ReadIndices = Range(K - s + 1, K + s)
        /\ TermIndices = ReadIndices
        /\ \A i \in 1..Len(L.reads) :
             LET n == L.reads[i].n
             IN  /\ L.reads[i].at =
                      IF 0 <= n /\ n < scaleFrom THEN Num(n) ELSE Mapped(n)
                 /\ L.terms[i].s = ElementAt(samples, L.reads[i].at)

C9_Witness ==
  /\ Called
  /\ details.method = <<"sinc">>
  /\ details.sincFilterSize = <<2>>
  /\ details.clip = <<"periodic">>
  /\ Len(L.reads) = 4
  /\ L.reads[1].n < 0
  /\ L.reads[1].at = Num(scaleFrom - 1)
  /\ L.reads[4].n >= scaleFrom

\* C10: point, linear and cubic return samples[k] whenever the source
\* coordinate u of the output index is an integer k in [0, sourceLength).
C10_Interpolates ==
  (/\ Called
   /\ details.method \in {<<"point">>, <<"linear">>, <<"cubic">>}
   /\ (ScaleNum * L.t) % scaleTo = 0
   /\ (ScaleNum * L.t) \div scaleTo < scaleFrom) =>
    L.value = Num(samples[(ScaleNum * L.t) \div scaleTo + 1])
====
